---- MODULE Spec2Model ----
(***************************************************************************)
(* Model of the neuralnet toolkit: the background minibatch pipeline       *)
(* (DataManager.generate_in_background), the progress reporter             *)
(* (DataManager.progress), get_batches, load_weights and utils.Thread of   *)
(* src/neuralnet/utils.py, the normalization layers BatchNormLayer and     *)
(* GroupNormLayer of src/neuralnet/normalization.py, and the layer         *)
(* iteration of Model (src/buildmodel.py).                                 *)
(*                                                                         *)
(* Each component has its own specification over the shared variables;     *)
(* the variables of the other components stay at their initial values.     *)
(***************************************************************************)
EXTENDS Integers, Sequences, FiniteSets, TLC

VARIABLES
    \* ---- generate_in_background (src/neuralnet/utils.py:82-106)
    source,        \* the items the wrapped generator yields, in order
    fails,         \* TRUE: the generator raises after its last item instead of ending
    num_cached,    \* self.num_cached, the maxsize given to Queue
    queue,         \* the Queue's content, oldest first
    ppc,           \* producer thread: "nothread","iter","put","put_sentinel","done","dead"
    pitem,         \* the producer's local `item`
    taken,         \* number of items the producer has taken from the generator
    cpc,           \* consumer generator: "unstarted","get","yielded","done","abandoned"
    yielded,       \* the items the consumer generator has yielded so far
    nthreads,      \* threading.Thread objects started for this pipeline
    nqueues,       \* Queue objects created for this pipeline
    \* ---- progress (src/neuralnet/utils.py:108-133)
    items,         \* the wrapped sequence
    has_len,       \* TRUE: `items` supports len() (a list), FALSE: a generator
    total_arg,     \* the `total` argument: <<>> for None, <<k>> for the number k
    min_delay,     \* the `min_delay` argument, in clock ticks
    total,         \* the local `total` after line 117
    n,             \* items taken from `items` so far (enumerate's next index)
    clock,         \* time.time()
    t_start,       \* local t_start
    t_last,        \* local t_last
    printed,       \* the lines printed so far
    passed,        \* the items progress has yielded so far
    rpc,           \* reporter generator: "unstarted","loop","yielded","done",
                   \*   "TypeError","abandoned"
    \* ---- BatchNormLayer (src/neuralnet/normalization.py:13-90)
    axes,                    \* the `axes` argument: "spatial" or "per-activation"
    running_average_factor,  \* self.running_average_factor, a rational <<num, den>>
    activation,              \* name of the activation the layer was built with
    training_flag,           \* self.training_flag
    gamma,                   \* self.gamma, per statistic index
    beta,                    \* self.beta
    running_mean,            \* self.running_mean
    running_var,             \* self.running_var
    trained,                 \* training-mode forward calls so far
    bn_op,                   \* the last operation on the layer and its outcome
    bn_input,                \* the input of the last operation, when a forward call
    bn_output,               \* the output it returned
    \* ---- GroupNormLayer (src/neuralnet/normalization.py:134-201)
    gn_channels,   \* input_shape[1]
    gn_groups,     \* the `groups` argument
    gn_epsilon,    \* the `epsilon` argument, a rational
    gn_activation, \* name of the `activation` argument
    gn_made,       \* the constructor call: "call","built","AssertionError",
                   \*   "ZeroDivisionError"
    gn_params,     \* self.params, the names of the parameters created
    gn_gamma,      \* self.gamma, per channel
    gn_beta,       \* self.beta
    gn_input,      \* the input of the last forward call
    gn_output,     \* the output it returned
    \* ---- load_weights (src/neuralnet/utils.py:199-241)
    lw_keys,       \* the archive in sorted key order: the shape of each array
    lw_layers,     \* the model: for each layer the shapes of its params
    lw_i,          \* layers the loop has gone through
    lw_j,          \* local j
    lw_values,     \* for each layer and param: 0 (prior value) or the index
                   \*   of the key whose array was assigned
    lw_log,        \* the lines printed
    lw_pc,         \* "loop","done","IndexError"
    \* ---- Model.__iter__ / Model.next (src/buildmodel.py:24-32)
    it_layers,     \* len(self.layers); the layers are 1..it_layers
    it_index,      \* self.index
    it_loop,       \* the current `for layer in model`: "none","running",
                   \*   "stopped","abandoned"
    it_seen,       \* the layers the current loop has been handed, in order
    it_loops,      \* loops started so far
    \* ---- utils.Thread (src/neuralnet/utils.py:10-24, src/utils.py:7-21)
    th_pc,         \* per Thread: "new","started","running","releasing","done",
                   \*   "raised"
    th_raises,     \* per Thread: TRUE when its func raises
    thread_lock,   \* the Thread holding thread_lock, or NoThread
    \* ---- get_batches (src/neuralnet/utils.py:70-80, 155-174)
    stage,            \* the `stage` argument
    num_train_data,   \* self.num_train_data
    num_test_data,    \* self.num_test_data
    batch_size,       \* self.batch_size
    test_batch_size   \* self.test_batch_size

pipeVars == <<source, fails, num_cached, queue, ppc, pitem, taken, cpc, yielded,
              nthreads, nqueues>>

progVars == <<items, has_len, total_arg, min_delay, total, n, clock, t_start, t_last,
              printed, passed, rpc>>

bnVars == <<axes, running_average_factor, activation, training_flag, gamma, beta,
            running_mean, running_var, trained, bn_op, bn_input, bn_output>>

gnVars == <<gn_channels, gn_groups, gn_epsilon, gn_activation, gn_made, gn_params,
            gn_gamma, gn_beta, gn_input, gn_output>>

lwVars == <<lw_keys, lw_layers, lw_i, lw_j, lw_values, lw_log, lw_pc>>

itVars == <<it_layers, it_index, it_loop, it_seen, it_loops>>

thVars == <<th_pc, th_raises, thread_lock>>

gbVars == <<stage, num_train_data, num_test_data, batch_size, test_batch_size>>

vars == <<pipeVars, progVars, bnVars, gnVars, lwVars, itVars, thVars, gbVars>>

\* What the steps of one component leave alone: the other components' variables.
PipeFrame == UNCHANGED <<progVars, bnVars, gnVars, lwVars, itVars, thVars, gbVars>>
ProgFrame == UNCHANGED <<pipeVars, bnVars, gnVars, lwVars, itVars, thVars, gbVars>>
BNFrame == UNCHANGED <<pipeVars, progVars, gnVars, lwVars, itVars, thVars, gbVars>>
GNFrame == UNCHANGED <<pipeVars, progVars, bnVars, lwVars, itVars, thVars, gbVars>>
LWFrame == UNCHANGED <<pipeVars, progVars, bnVars, gnVars, itVars, thVars, gbVars>>
ITFrame == UNCHANGED <<pipeVars, progVars, bnVars, gnVars, lwVars, thVars, gbVars>>
THFrame == UNCHANGED <<pipeVars, progVars, bnVars, gnVars, lwVars, itVars, gbVars>>

-----------------------------------------------------------------------------
(* Bounds *)

MaxItems == 3      \* longest source sequence
MaxCached == 2     \* largest num_cached
MaxWrapped == 2    \* longest sequence wrapped by progress
MaxTotal == 3      \* largest `total` argument
MaxDelay == 1      \* largest min_delay, in clock ticks
MaxTick == 2       \* longest time between two steps of the reporter, in ticks
BatchN == 2        \* samples per batch (input_shape[0])
ChanN == 2         \* channels (input_shape[1])
SpatN == 2         \* spatial positions per channel (input_shape[2:], flattened)
MaxTrainSteps == 2 \* training-mode forward calls explored

(* The minibatches a source can yield.  A Minibatch is a (features, targets)  *)
(* pair or a features array (utils.py:173-174), never a str.                  *)
Minibatches == {"mb1", "mb2"}

(* utils.py:88 *)
sentinel == "end"

NoItem == "none"

RECURSIVE SeqsUpTo(_, _)
SeqsUpTo(S, k) ==
    IF k = 0 THEN {<<>>}
    ELSE LET shorter == SeqsUpTo(S, k - 1)
         IN  shorter \cup {Append(s, x) : s \in {t \in shorter : Len(t) = k - 1}, x \in S}

IsPrefix(s, t) == Len(s) <= Len(t) /\ \A i \in 1..Len(s) : s[i] = t[i]

-----------------------------------------------------------------------------
(* queue.Queue as used by generate_in_background *)

\* Mutant: a queue that never reports full (maxsize ignored).
QueueFull_NeverFull(q, maxsize) == FALSE

\* Queue.put blocks while 0 < maxsize <= qsize(); maxsize <= 0 is unbounded.
QueueFull(q, maxsize) == maxsize > 0 /\ Len(q) >= maxsize

\* Mutant: put at the head (a LIFO queue).
QueuePut_Lifo(q, x) == <<x>> \o q

\* Queue.put appends at the tail.
QueuePut(q, x) == Append(q, x)

\* Consumer loop test `item is not 'end'` (utils.py:104), negated.
IsSentinel(x) == x = sentinel

-----------------------------------------------------------------------------
(* generate_in_background *)

\* State after `generate_in_background(generator)` has returned: the function
\* contains `yield`, so the call only builds a generator object and none of
\* its body (lines 86-106) has run.
PipeInit ==
    /\ source \in SeqsUpTo(Minibatches, MaxItems)
    /\ fails \in BOOLEAN
    /\ num_cached \in 0..MaxCached
    /\ queue = <<>>
    /\ ppc = "nothread"
    /\ pitem = NoItem
    /\ taken = 0
    /\ cpc = "unstarted"
    /\ yielded = <<>>
    /\ nthreads = 0
    /\ nqueues = 0

\* First next() on the generator object: lines 86-100 run (Queue created,
\* producer thread created and started), the consumer arrives at queue.get()
\* of line 103.
ConsumerFirstNext ==
    /\ cpc = "unstarted"
    /\ nqueues' = nqueues + 1
    /\ nthreads' = nthreads + 1
    /\ ppc' = "iter"
    /\ cpc' = "get"
    /\ UNCHANGED <<source, fails, num_cached, queue, pitem, taken, yielded>>
    /\ PipeFrame

\* queue.get() (lines 103, 106) blocks while the queue is empty; then the
\* loop test of line 104: the sentinel ends the generator, anything else is
\* yielded (line 105).
ConsumerGet ==
    /\ cpc = "get"
    /\ queue # <<>>
    /\ queue' = Tail(queue)
    /\ IF IsSentinel(Head(queue))
         THEN cpc' = "done" /\ yielded' = yielded
         ELSE cpc' = "yielded" /\ yielded' = Append(yielded, Head(queue))
    /\ UNCHANGED <<source, fails, num_cached, ppc, pitem, taken, nthreads, nqueues>>
    /\ PipeFrame

\* Mutant: every request starts another producer thread.
ConsumerNext_StartsThread ==
    /\ cpc = "yielded"
    /\ cpc' = "get"
    /\ nthreads' = nthreads + 1
    /\ UNCHANGED <<source, fails, num_cached, queue, ppc, pitem, taken, yielded, nqueues>>
    /\ PipeFrame

\* The caller asks for the next item: the generator resumes after the yield
\* and reaches queue.get() of line 106.
ConsumerNext ==
    /\ cpc = "yielded"
    /\ cpc' = "get"
    /\ UNCHANGED <<source, fails, num_cached, queue, ppc, pitem, taken, yielded,
                   nthreads, nqueues>>
    /\ PipeFrame

\* The caller stops iterating and drops the generator; nothing tells the
\* producer (there is no cancellation in lines 91-94).
ConsumerAbandon ==
    /\ cpc = "yielded"
    /\ cpc' = "abandoned"
    /\ UNCHANGED <<source, fails, num_cached, queue, ppc, pitem, taken, yielded,
                   nthreads, nqueues>>
    /\ PipeFrame

\* `for item in generator` (line 92) takes the next item.
ProducerTake ==
    /\ ppc = "iter"
    /\ taken < Len(source)
    /\ pitem' = source[taken + 1]
    /\ taken' = taken + 1
    /\ ppc' = "put"
    /\ UNCHANGED <<source, fails, num_cached, queue, cpc, yielded, nthreads, nqueues>>
    /\ PipeFrame

\* Mutant: the producer returns at exhaustion without the sentinel.
ProducerExhausted_NoSentinel ==
    /\ ppc = "iter"
    /\ taken = Len(source)
    /\ ~fails
    /\ ppc' = "done"
    /\ UNCHANGED <<source, fails, num_cached, queue, pitem, taken, cpc, yielded,
                   nthreads, nqueues>>
    /\ PipeFrame

\* The generator is exhausted: the for loop of line 92 ends, line 94 is next.
ProducerExhausted ==
    /\ ppc = "iter"
    /\ taken = Len(source)
    /\ ~fails
    /\ ppc' = "put_sentinel"
    /\ UNCHANGED <<source, fails, num_cached, queue, pitem, taken, cpc, yielded,
                   nthreads, nqueues>>
    /\ PipeFrame

\* The generator raises inside the for loop of line 92: producer() has no
\* try/except, the exception ends the thread's run; line 94 is never reached.
ProducerRaise ==
    /\ ppc = "iter"
    /\ taken = Len(source)
    /\ fails
    /\ ppc' = "dead"
    /\ UNCHANGED <<source, fails, num_cached, queue, pitem, taken, cpc, yielded,
                   nthreads, nqueues>>
    /\ PipeFrame

\* queue.put(item) (line 93): blocks while the queue is full.
ProducerPut ==
    /\ ppc = "put"
    /\ ~QueueFull(queue, num_cached)
    /\ queue' = QueuePut(queue, pitem)
    /\ ppc' = "iter"
    /\ UNCHANGED <<source, fails, num_cached, pitem, taken, cpc, yielded, nthreads, nqueues>>
    /\ PipeFrame

\* queue.put(sentinel) (line 94), then producer() returns.
ProducerPutSentinel ==
    /\ ppc = "put_sentinel"
    /\ ~QueueFull(queue, num_cached)
    /\ queue' = QueuePut(queue, sentinel)
    /\ ppc' = "done"
    /\ UNCHANGED <<source, fails, num_cached, pitem, taken, cpc, yielded, nthreads, nqueues>>
    /\ PipeFrame

Producer ==
    \/ ProducerTake
    \/ ProducerExhausted
    \/ ProducerRaise
    \/ ProducerPut
    \/ ProducerPutSentinel

\* A consumer that keeps requesting items.
Consumer ==
    \/ ConsumerFirstNext
    \/ ConsumerGet
    \/ ConsumerNext

-----------------------------------------------------------------------------
(* progress (utils.py:108-133) *)

\* Python truth value of the `total` argument: None and 0 are false.
Truthy(t) == t # <<>> /\ t[1] # 0

\* "%6.2f" of n / float(total) * 100 (line 124), in hundredths of a percent.
Percent(k, tot) == (2 * k * 10000 + tot) \div (2 * tot)

\* "%d:%02d" % divmod(seconds, 60) (lines 128, 133).
MinSec(secs) == <<secs \div 60, secs % 60>>

NoTime == <<>>

\* The progress line of lines 123-128 for 0-based index k at time now: the
\* ETA part is printed from the second item on.
ProgressLine(k, tot, now, start) ==
    [kind |-> "progress", idx |-> k + 1, total |-> tot, pct |-> Percent(k, tot),
     time |-> IF k > 0
                THEN MinSec(((now - start) * tot) \div k - (now - start))
                ELSE NoTime]

\* Mutant: the summary reports the number of items seen, not `total`.
FinalLine_Count(tot, count, took) ==
    [kind |-> "final", idx |-> count, total |-> tot, pct |-> 10000, time |-> MinSec(took)]

\* The summary line of line 133: total/total, the literal 100.00%, the time taken.
FinalLine(tot, count, took) ==
    [kind |-> "final", idx |-> tot, total |-> tot, pct |-> 10000, time |-> MinSec(took)]

\* `yield item` (line 131): the item enumerate delivered, itself.
Passed(seq, k) == seq[k]

\* State after `progress(items, desc, total, min_delay)` has returned: a
\* generator object, none of lines 117-133 has run.
ProgInit ==
    /\ items \in SeqsUpTo(Minibatches, MaxWrapped)
    /\ has_len \in BOOLEAN
    /\ total_arg \in {<<>>} \cup {<<k>> : k \in 0..MaxTotal}
    /\ min_delay \in 0..MaxDelay
    /\ total = 0
    /\ n = 0
    /\ clock = MaxDelay + 1
    /\ t_start = 0
    /\ t_last = 0
    /\ printed = <<>>
    /\ passed = <<>>
    /\ rpc = "unstarted"

\* First next(): `total = total or len(items)` (line 117) with a usable
\* total or a sized sequence, then lines 118-119.
ProgressBegin ==
    /\ rpc = "unstarted"
    /\ Truthy(total_arg) \/ has_len
    /\ total' = IF Truthy(total_arg) THEN total_arg[1] ELSE Len(items)
    /\ t_start' = clock
    /\ t_last' = 0
    /\ rpc' = "loop"
    /\ UNCHANGED <<items, has_len, total_arg, min_delay, n, clock, printed, passed>>
    /\ ProgFrame

\* First next(): line 117 with total None or 0 evaluates len(items), which
\* raises TypeError for a sequence without a length; the generator ends there.
ProgressBeginNoLen ==
    /\ rpc = "unstarted"
    /\ ~Truthy(total_arg)
    /\ ~has_len
    /\ rpc' = "TypeError"
    /\ UNCHANGED <<items, has_len, total_arg, min_delay, total, n, clock, t_start, t_last,
                   printed, passed>>
    /\ ProgFrame

\* One pass of the loop body (lines 120-131) after `tick` ticks: the line is
\* printed when more than min_delay has passed since the last one; the item
\* is yielded in either case.
ProgressItem(tick) ==
    /\ rpc = "loop"
    /\ n < Len(items)
    /\ clock' = clock + tick
    /\ IF clock' - t_last > min_delay
         THEN /\ printed' = Append(printed, ProgressLine(n, total, clock', t_start))
              /\ t_last' = clock'
         ELSE /\ printed' = printed
              /\ t_last' = t_last
    /\ passed' = Append(passed, Passed(items, n + 1))
    /\ n' = n + 1
    /\ rpc' = "yielded"
    /\ UNCHANGED <<items, has_len, total_arg, min_delay, total, t_start>>
    /\ ProgFrame

\* The caller asks for the next item: the generator resumes after line 131.
ProgressResume ==
    /\ rpc = "yielded"
    /\ rpc' = "loop"
    /\ UNCHANGED <<items, has_len, total_arg, min_delay, total, n, clock, t_start, t_last,
                   printed, passed>>
    /\ ProgFrame

\* The caller stops iterating before the end: lines 132-133 never run.
ProgressAbandon ==
    /\ rpc = "yielded"
    /\ rpc' = "abandoned"
    /\ UNCHANGED <<items, has_len, total_arg, min_delay, total, n, clock, t_start, t_last,
                   printed, passed>>
    /\ ProgFrame

\* The wrapped sequence is exhausted: lines 132-133 print the summary and the
\* generator ends.
ProgressEnd(tick) ==
    /\ rpc = "loop"
    /\ n = Len(items)
    /\ clock' = clock + tick
    /\ printed' = Append(printed, FinalLine(total, n, clock' - t_start))
    /\ rpc' = "done"
    /\ UNCHANGED <<items, has_len, total_arg, min_delay, total, n, t_start, t_last, passed>>
    /\ ProgFrame

-----------------------------------------------------------------------------
(* Exact arithmetic: a rational is <<numerator, denominator>> in lowest     *)
(* terms with a positive denominator.                                       *)

RECURSIVE Gcd(_, _)
Gcd(a, b) == IF b = 0 THEN a ELSE Gcd(b, a % b)

Abs(x) == IF x < 0 THEN -x ELSE x

\* The fraction nu/de in lowest terms with a positive denominator.  Rat and the
\* operations below bind their operands once, so that a nested expression is
\* computed once per operand.
LowestTerms(num, den, g) ==
    <<((IF den < 0 THEN -1 ELSE 1) * num) \div g, ((IF den < 0 THEN -1 ELSE 1) * den) \div g>>

Rat(nu, de) ==
    CHOOSE r \in {LowestTerms(t[1], t[2], Gcd(Abs(t[1]), Abs(t[2]))) : t \in {<<nu, de>>}} : TRUE

RInt(k) == <<k, 1>>
RAdd(a, b) ==
    CHOOSE r \in {Rat(x[1] * y[2] + y[1] * x[2], x[2] * y[2]) : x \in {a}, y \in {b}} : TRUE
RSub(a, b) ==
    CHOOSE r \in {Rat(x[1] * y[2] - y[1] * x[2], x[2] * y[2]) : x \in {a}, y \in {b}} : TRUE
RMul(a, b) ==
    CHOOSE r \in {Rat(x[1] * y[1], x[2] * y[2]) : x \in {a}, y \in {b}} : TRUE

-----------------------------------------------------------------------------
(* BatchNormLayer (normalization.py:13-90) *)

\* Positions <<sample, channel, spatial position>> of an input tensor.
Pos == (1..BatchN) \X (1..ChanN) \X (1..SpatN)

\* self.shape (line 30): one statistic per channel for 'spatial' axes, one
\* per activation (channel and position) otherwise.
StatIdx(ax) ==
    IF ax = "spatial" THEN {<<c>> : c \in 1..ChanN}
    ELSE {<<c, sp>> : c \in 1..ChanN, sp \in 1..SpatN}

\* self.axes (line 29): statistic j is taken over batch and spatial axes for
\* 'spatial', over the batch axis alone otherwise.  ReducedCount is the number
\* of positions reduced into one statistic, ReducedAt the i-th of them.
ReducedCount(ax) == IF ax = "spatial" THEN BatchN * SpatN ELSE BatchN

ReducedAt(ax, j, i) ==
    IF ax = "spatial"
      THEN <<((i - 1) \div SpatN) + 1, j[1], ((i - 1) % SpatN) + 1>>
      ELSE <<i, j[1], j[2]>>

\* The statistic a position is normalized with.
StatOf(ax, q) == IF ax = "spatial" THEN <<q[2]>> ELSE <<q[2], q[3]>>

\* The batches fed to the layer, each named by <<k0, kb, kc, ks>>: its element
\* at <<b, c, s>> is k0 + kb*b + kc*c + ks*s (indices from 0).  <<1, 0, 0, 0>>
\* is the all-ones batch.
AllOnes == <<1, 0, 0, 0>>
BatchKinds == {AllOnes, <<0, 1, 0, 0>>, <<0, 0, 1, 1>>, <<1, 2, 0, 1>>}

Elem(k, q) == k[1] + k[2] * (q[1] - 1) + k[3] * (q[2] - 1) + k[4] * (q[3] - 1)

\* Sum of the elements of batch k over the first i positions reduced into
\* statistic j, and of their squares.
RECURSIVE Sum(_, _, _, _)
Sum(k, ax, j, i) ==
    IF i = 0 THEN 0 ELSE Elem(k, ReducedAt(ax, j, i)) + Sum(k, ax, j, i - 1)

RECURSIVE SumSq(_, _, _, _)
SumSq(k, ax, j, i) ==
    IF i = 0 THEN 0
    ELSE Elem(k, ReducedAt(ax, j, i)) * Elem(k, ReducedAt(ax, j, i)) + SumSq(k, ax, j, i - 1)

\* self.epsilon, epsilon=1e-4 (lines 14, 25).
Epsilon == <<1, 10000>>

\* The values running_average_factor takes: the default 1e-1 (line 14), and 1/2.
Factors == {<<1, 10>>, <<1, 2>>}

\* Mean of batch k over the positions reduced into statistic j.
BatchMean(k, ax, j) == Rat(Sum(k, ax, j, ReducedCount(ax)), ReducedCount(ax))

\* Its variance over them, as T.var computes it (divisor m).
BatchVar(k, ax, j) ==
    CHOOSE r \in {Rat(ReducedCount(ax) * t[2] - t[1] * t[1],
                       ReducedCount(ax) * ReducedCount(ax)) :
                   t \in {<<Sum(k, ax, j, ReducedCount(ax)),
                            SumSq(k, ax, j, ReducedCount(ax))>>}} : TRUE

\* Mutant: the weights of old value and batch statistic are swapped.
NewRunningMean_Swapped(old, mean, f) ==
    RAdd(RMul(old, f), RMul(mean, RSub(RInt(1), f)))

\* T.nnet.bn.batch_normalization_train's fourth output (line 58), Theano's
\*     running_mean * (1 - r_a_factor) + batch mean * r_a_factor
NewRunningMean(old, mean, f) ==
    RAdd(RMul(old, RSub(RInt(1), f)), RMul(mean, f))

\* T.nnet.bn.batch_normalization_train's fifth output (line 58), Theano's
\*     running_var * (1 - r_a_factor) + (m / (m - 1)) * batch var * r_a_factor
\* with m the product of the lengths of the averaged-over dimensions.
NewRunningVar(old, var, f, m) ==
    RAdd(RMul(old, RSub(RInt(1), f)), RMul(RMul(Rat(m, m - 1), var), f))

\* One element of a normalized output:
\*     act((x - mean) * gamma / sqrt(var + epsilon) + beta)
\* kept as <<act, (x - mean) * gamma, var + epsilon, beta>>.
Normalized(act, x, mean, var, g, b) ==
    <<act, RMul(RSub(RInt(x), mean), g), RAdd(var, Epsilon), b>>

\* Output of the training path (lines 58, 78): normalized with the batch
\* statistics.
TrainOutput(k) ==
    [q \in Pos |->
        Normalized(activation, Elem(k, q),
                   BatchMean(k, axes, StatOf(axes, q)),
                   BatchVar(k, axes, StatOf(axes, q)),
                   gamma[StatOf(axes, q)], beta[StatOf(axes, q)])]

\* Output of the test path (lines 73-74, 79): normalized with the running
\* statistics.
TestOutput(k) ==
    [q \in Pos |->
        Normalized(activation, Elem(k, q),
                   running_mean[StatOf(axes, q)], running_var[StatOf(axes, q)],
                   gamma[StatOf(axes, q)], beta[StatOf(axes, q)])]

\* gamma_values and beta_values (lines 33, 36).
Ones(ax) == [j \in StatIdx(ax) |-> RInt(1)]
Zeros(ax) == [j \in StatIdx(ax) |-> RInt(0)]

NoBatch == <<>>

\* State after BatchNormLayer.__init__ (lines 24-55).
BNInit ==
    /\ axes \in {"spatial", "per-activation"}
    /\ running_average_factor \in Factors
    /\ activation \in {"relu", "linear"}
    /\ training_flag \in BOOLEAN
    /\ gamma = Ones(axes)
    /\ beta = Zeros(axes)
    /\ running_mean = Zeros(axes)
    /\ running_var = Zeros(axes)
    /\ trained = 0
    /\ bn_op = "init"
    /\ bn_input = NoBatch
    /\ bn_output = NoBatch

\* The layer while another component is exercised: built, not used.
BNIdle ==
    /\ axes = "spatial"
    /\ running_average_factor = <<1, 10>>
    /\ activation = "relu"
    /\ training_flag = FALSE
    /\ gamma = Ones(axes)
    /\ beta = Zeros(axes)
    /\ running_mean = Zeros(axes)
    /\ running_var = Zeros(axes)
    /\ trained = 0
    /\ bn_op = "init"
    /\ bn_input = NoBatch
    /\ bn_output = NoBatch

\* The training loop switches the layer between training and test mode.
SetTrainingFlag(flag) ==
    /\ flag # training_flag
    /\ training_flag' = flag
    /\ bn_op' = "set_flag"
    /\ bn_input' = NoBatch
    /\ bn_output' = NoBatch
    /\ UNCHANGED <<axes, running_average_factor, activation, gamma, beta, running_mean,
                   running_var, trained>>
    /\ BNFrame

\* A forward call in training mode (get_output, line 78, with
\* batch_normalization_train, lines 57-70): the output uses the batch
\* statistics; the default updates of lines 65-68 store Theano's new running
\* mean and variance when the compiled function has run.
ForwardTrain(k) ==
    /\ training_flag
    /\ trained < MaxTrainSteps
    /\ bn_output' = TrainOutput(k)
    /\ running_mean' =
          [j \in StatIdx(axes) |->
              NewRunningMean(running_mean[j], BatchMean(k, axes, j),
                             running_average_factor)]
    /\ running_var' =
          [j \in StatIdx(axes) |->
              NewRunningVar(running_var[j], BatchVar(k, axes, j),
                            running_average_factor, ReducedCount(axes))]
    /\ bn_input' = k
    /\ trained' = trained + 1
    /\ bn_op' = "train"
    /\ UNCHANGED <<axes, running_average_factor, activation, training_flag, gamma, beta>>
    /\ BNFrame

\* Mutant: the test path stores the batch mean as the running mean.
ForwardTest_StoresMean(k) ==
    /\ ~training_flag
    /\ bn_output' = TestOutput(k)
    /\ running_mean' =
          [j \in StatIdx(axes) |-> BatchMean(k, axes, j)]
    /\ bn_input' = k
    /\ bn_op' = "test"
    /\ UNCHANGED <<axes, running_average_factor, activation, training_flag, gamma, beta,
                   running_var, trained>>
    /\ BNFrame

\* A forward call in test mode (get_output, line 79, with
\* batch_normalization_test, lines 72-75): a pure function of the input and
\* of gamma, beta, running_mean, running_var.
ForwardTest(k) ==
    /\ ~training_flag
    /\ bn_output' = TestOutput(k)
    /\ bn_input' = k
    /\ bn_op' = "test"
    /\ UNCHANGED <<axes, running_average_factor, activation, training_flag, gamma, beta,
                   running_mean, running_var, trained>>
    /\ BNFrame

\* The optimizer writes new values into the trainable parameters.
UpdateParams(g, b) ==
    /\ gamma' = [j \in StatIdx(axes) |-> RInt(g)]
    /\ beta' = [j \in StatIdx(axes) |-> RInt(b)]
    /\ gamma' # gamma \/ beta' # beta
    /\ bn_op' = "update"
    /\ bn_input' = NoBatch
    /\ bn_output' = NoBatch
    /\ UNCHANGED <<axes, running_average_factor, activation, training_flag, running_mean,
                   running_var, trained>>
    /\ BNFrame

\* reset() (lines 86-90): gamma and beta are set back to gamma_values and
\* beta_values, then line 89 looks up utils.function['prelu'], a key the
\* table of utils.py:305-307 does not have: the call ends in KeyError.
Reset ==
    /\ gamma' = Ones(axes)
    /\ beta' = Zeros(axes)
    /\ bn_op' = "reset:KeyError"
    /\ bn_input' = NoBatch
    /\ bn_output' = NoBatch
    /\ UNCHANGED <<axes, running_average_factor, activation, training_flag, running_mean,
                   running_var, trained>>
    /\ BNFrame

-----------------------------------------------------------------------------
(* GroupNormLayer (normalization.py:134-201) *)

MaxChannels == 4   \* largest input_shape[1] of a GroupNormLayer

\* Mutant: the constructor accepts every groups value.
GroupsDivide_Always(c, g) == TRUE

\* The asserted condition of line 142, input_shape[1] / groups ==
\* input_shape[1] // groups: the quotient (true division, the package is
\* Python 3 code, utils.py:86, 123) against the floor quotient.
GroupsDivide(c, g) == Rat(c, g) = RInt(c \div g)

\* The values `epsilon` takes: the default 1e-4 (line 141), and 1e-5.
GNEpsilons == {<<1, 10000>>, <<1, 100000>>}

\* The epsilon batch_normalization_train uses when the call gives none
\* (line 180): the default of its signature, 1e-4.
DefaultTrainEpsilon == <<1, 10000>>

\* Positions <<sample, channel, spatial position>> of an input of c channels.
GNPos(c) == (1..BatchN) \X (1..c) \X (1..SpatN)

\* Sum of the elements of batch k over the first i positions of sample b in
\* the channels from c0 on (each channel with its SpatN positions), and of
\* their squares.
RECURSIVE GNSum(_, _, _, _)
GNSum(k, b, c0, i) ==
    IF i = 0 THEN 0
    ELSE Elem(k, <<b, c0 + ((i - 1) \div SpatN), ((i - 1) % SpatN) + 1>>)
           + GNSum(k, b, c0, i - 1)

RECURSIVE GNSumSq(_, _, _, _)
GNSumSq(k, b, c0, i) ==
    IF i = 0 THEN 0
    ELSE Elem(k, <<b, c0 + ((i - 1) \div SpatN), ((i - 1) % SpatN) + 1>>)
           * Elem(k, <<b, c0 + ((i - 1) \div SpatN), ((i - 1) % SpatN) + 1>>)
           + GNSumSq(k, b, c0, i - 1)

\* Mean and variance (divisor m) of sample b of batch k over the nc channels
\* from c0 on and all their positions.
GNMean(k, b, c0, nc) == Rat(GNSum(k, b, c0, nc * SpatN), nc * SpatN)

GNVar(k, b, c0, nc) ==
    CHOOSE r \in {Rat((nc * SpatN) * t[2] - t[1] * t[1], (nc * SpatN) * (nc * SpatN)) :
                   t \in {<<GNSum(k, b, c0, nc * SpatN),
                            GNSumSq(k, b, c0, nc * SpatN)>>}} : TRUE

\* One element of an output:
\*     act(gamma * (x - mean) / sqrt(var + eps) + beta)
\* kept as <<act, (x - mean) * gamma, var + eps, beta>>.
GNNormalized(act, x, mean, var, eps, g, b) ==
    <<act, RMul(RSub(RInt(x), mean), g), RAdd(var, eps), b>>

\* groups == 1 (lines 172-176, 190): batch_normalization_train over the
\* transposed input with axes 'spatial' and self.epsilon: the statistics of
\* a sample are taken over all its channels and positions.
LayerNormPath(k) ==
    [q \in GNPos(gn_channels) |->
        GNNormalized(gn_activation, Elem(k, q),
                     GNMean(k, q[1], 1, gn_channels), GNVar(k, q[1], 1, gn_channels),
                     gn_epsilon, gn_gamma[q[2]], gn_beta[q[2]])]

\* groups == input_shape[1] (lines 178-181, 190): batch_normalization_train
\* with axes (2, 3) and no epsilon argument: the statistics of a sample and
\* channel are taken over its positions, with the default epsilon.
InstanceNormPath(k) ==
    [q \in GNPos(gn_channels) |->
        GNNormalized(gn_activation, Elem(k, q),
                     GNMean(k, q[1], q[2], 1), GNVar(k, q[1], q[2], 1),
                     DefaultTrainEpsilon, gn_gamma[q[2]], gn_beta[q[2]])]

\* First channel of the group that channel ch is in, for groups of per
\* consecutive channels (the reshape of line 184).
GroupStart(ch, per) == ((ch - 1) \div per) * per + 1

\* The general path (lines 183-189, 190): mean and variance of a sample and
\* group over the group's channels and positions, self.epsilon.
GroupedPath(k) ==
    [q \in GNPos(gn_channels) |->
        GNNormalized(gn_activation, Elem(k, q),
                     GNMean(k, q[1], GroupStart(q[2], gn_channels \div gn_groups),
                            gn_channels \div gn_groups),
                     GNVar(k, q[1], GroupStart(q[2], gn_channels \div gn_groups),
                           gn_channels \div gn_groups),
                     gn_epsilon, gn_gamma[q[2]], gn_beta[q[2]])]

\* get_output (lines 168-190).
GNGetOutput(k) ==
    IF gn_groups = 1 THEN LayerNormPath(k)
    ELSE IF gn_groups = gn_channels THEN InstanceNormPath(k)
    ELSE GroupedPath(k)

\* The arguments of a constructor call GroupNormLayer(input_shape, groups=,
\* epsilon=, activation=), before the constructor has run.
GNInit ==
    /\ gn_channels \in 1..MaxChannels
    /\ gn_groups \in 0..MaxChannels
    /\ gn_epsilon \in GNEpsilons
    /\ gn_activation \in {"relu", "linear"}
    /\ gn_made = "call"
    /\ gn_params = <<>>
    /\ gn_gamma = <<>>
    /\ gn_beta = <<>>
    /\ gn_input = NoBatch
    /\ gn_output = NoBatch

\* No GroupNormLayer while another component is exercised.
GNIdle ==
    /\ gn_channels = 1
    /\ gn_groups = 1
    /\ gn_epsilon = <<1, 10000>>
    /\ gn_activation = "relu"
    /\ gn_made = "call"
    /\ gn_params = <<>>
    /\ gn_gamma = <<>>
    /\ gn_beta = <<>>
    /\ gn_input = NoBatch
    /\ gn_output = NoBatch

\* __init__ (lines 141-166).  Line 142 comes first: groups = 0 ends it in
\* ZeroDivisionError, a groups that does not divide the channels in
\* AssertionError, both before line 144 and so before any attribute of the
\* layer exists.  Otherwise gamma (ones) and beta (zeros) are created and
\* entered in self.params.
GNConstruct ==
    /\ gn_made = "call"
    /\ IF gn_groups = 0
         THEN /\ gn_made' = "ZeroDivisionError"
              /\ UNCHANGED <<gn_params, gn_gamma, gn_beta>>
         ELSE IF ~GroupsDivide(gn_channels, gn_groups)
           THEN /\ gn_made' = "AssertionError"
                /\ UNCHANGED <<gn_params, gn_gamma, gn_beta>>
           ELSE /\ gn_made' = "built"
                /\ gn_gamma' = [ch \in 1..gn_channels |-> RInt(1)]
                /\ gn_beta' = [ch \in 1..gn_channels |-> RInt(0)]
                /\ gn_params' = <<"gamma", "beta">>
    /\ UNCHANGED <<gn_channels, gn_groups, gn_epsilon, gn_activation, gn_input, gn_output>>
    /\ GNFrame

\* A forward call of a built layer (get_output, lines 168-190).
GNForward(k) ==
    /\ gn_made = "built"
    /\ gn_input' = k
    /\ gn_output' = GNGetOutput(k)
    /\ UNCHANGED <<gn_channels, gn_groups, gn_epsilon, gn_activation, gn_made, gn_params,
                   gn_gamma, gn_beta>>
    /\ GNFrame

\* The optimizer writes new values into gamma and beta.
GNUpdateParams(g, b) ==
    /\ gn_made = "built"
    /\ gn_gamma' = [ch \in 1..gn_channels |-> RInt(g)]
    /\ gn_beta' = [ch \in 1..gn_channels |-> RInt(b)]
    /\ gn_gamma' # gn_gamma \/ gn_beta' # gn_beta
    /\ gn_input' = NoBatch
    /\ gn_output' = NoBatch
    /\ UNCHANGED <<gn_channels, gn_groups, gn_epsilon, gn_activation, gn_made, gn_params>>
    /\ GNFrame

-----------------------------------------------------------------------------
(* load_weights (utils.py:199-241) *)

MaxKeys == 3     \* most arrays in a weight archive
MaxLayers == 2   \* most layers of the model given to load_weights

\* Array shapes, as lines 209 and 231 compare them.
ShapeKinds == {"s1", "s2"}

\* A layer is the sequence of the shapes of its params: none (a layer
\* without parameters), a weight, or a weight and a bias.
LayerKinds == {<<>>, <<"s1">>, <<"s1", "s2">>, <<"s2", "s2">>}

LoadedLine(i, key) == <<"@ Layer", i, key>>
SkippedLine(i, key) == <<"No compatible parameters", i, key>>
SuccessLine == <<"Loaded successfully!">>

\* The first try (lines 207-228) for 0-based layer i and the key at 1-based
\* position kw: the array is assigned when the layer has a params[0] of its
\* shape; with another shape, or with no params[0] (IndexError, caught at
\* line 215; a layer without params has no filter_shape), the skip is logged.
WeightFits(layer, kw) == Len(layer) >= 1 /\ lw_keys[kw] = layer[1]

\* The second try (lines 229-236) for the key at position kb, in the archive.
BiasFits(layer, kb) == Len(layer) >= 2 /\ lw_keys[kb] = layer[2]

\* The values of a layer's params after the loop body: 0 is the prior value.
Assigned(layer, kw, kb) ==
    [p \in 1..Len(layer) |->
        IF p = 1 /\ WeightFits(layer, kw) THEN kw
        ELSE IF p = 2 /\ kb <= Len(lw_keys) /\ BiasFits(layer, kb) THEN kb
        ELSE 0]

\* State when load_weights enters its loop (lines 200-203).
LWInit ==
    /\ lw_keys \in SeqsUpTo(ShapeKinds, MaxKeys)
    /\ lw_layers \in SeqsUpTo(LayerKinds, MaxLayers)
    /\ lw_i = 0
    /\ lw_j = 0
    /\ lw_values = [i \in 1..Len(lw_layers) |-> [p \in 1..Len(lw_layers[i]) |-> 0]]
    /\ lw_log = <<>>
    /\ lw_pc = "loop"

\* load_weights while another component is exercised: not called.
LWIdle ==
    /\ lw_keys = <<>>
    /\ lw_layers = <<>>
    /\ lw_i = 0
    /\ lw_j = 0
    /\ lw_values = <<>>
    /\ lw_log = <<>>
    /\ lw_pc = "loop"

\* One pass of the loop body (lines 205-240) for the next layer, keys[j]
\* existing.  When keys[j + 1] does not exist, line 230 raises IndexError,
\* the handler of line 237 catches it and its print (lines 238-239) indexes
\* keys[j + 1] again: that IndexError leaves load_weights.
LoadLayer ==
    /\ lw_pc = "loop"
    /\ lw_i < Len(lw_layers)
    /\ lw_j <= Len(lw_keys) - 1
    /\ lw_values' = [lw_values EXCEPT
                       ![lw_i + 1] = Assigned(lw_layers[lw_i + 1], lw_j + 1, lw_j + 2)]
    /\ IF lw_j + 2 > Len(lw_keys)
         THEN /\ lw_pc' = "IndexError"
              /\ lw_log' = Append(lw_log,
                                  IF WeightFits(lw_layers[lw_i + 1], lw_j + 1)
                                    THEN LoadedLine(lw_i, lw_j + 1)
                                    ELSE SkippedLine(lw_i, lw_j + 1))
              /\ UNCHANGED <<lw_i, lw_j>>
         ELSE /\ lw_pc' = "loop"
              /\ lw_log' = lw_log \o
                    <<IF WeightFits(lw_layers[lw_i + 1], lw_j + 1)
                        THEN LoadedLine(lw_i, lw_j + 1)
                        ELSE SkippedLine(lw_i, lw_j + 1),
                      IF BiasFits(lw_layers[lw_i + 1], lw_j + 2)
                        THEN LoadedLine(lw_i, lw_j + 2)
                        ELSE SkippedLine(lw_i, lw_j + 2)>>
              /\ lw_i' = lw_i + 1
              /\ lw_j' = lw_j + 2
    /\ UNCHANGED <<lw_keys, lw_layers>>
    /\ LWFrame

\* The loop ends, at the last layer or by the break of lines 205-206; line
\* 241 prints the success line and load_weights returns.
LoadEnd ==
    /\ lw_pc = "loop"
    /\ lw_i = Len(lw_layers) \/ lw_j > Len(lw_keys) - 1
    /\ lw_log' = Append(lw_log, SuccessLine)
    /\ lw_pc' = "done"
    /\ UNCHANGED <<lw_keys, lw_layers, lw_i, lw_j, lw_values>>
    /\ LWFrame

-----------------------------------------------------------------------------
(* Model.__iter__ / Model.next (buildmodel.py:24-32) *)

MaxModelLayers == 5   \* most layers of a Model
MaxLoops == 3         \* `for layer in model` loops explored

\* self.layers, the layers in construction order.
Layers(count) == [i \in 1..count |-> i]

\* A built Model: the layers in self.layers; self.index, which next() (lines
\* 28-32) uses as the number of layers handed out so far, at 0.
ITInit ==
    /\ it_layers \in 0..MaxModelLayers
    /\ it_index = 0
    /\ it_loop = "none"
    /\ it_seen = <<>>
    /\ it_loops = 0

\* No Model while another component is exercised.
ITIdle ==
    /\ it_layers = 0
    /\ it_index = 0
    /\ it_loop = "none"
    /\ it_seen = <<>>
    /\ it_loops = 0

\* `for layer in model` begins (load_weights line 204, inference line 288):
\* __iter__ (lines 24-25) returns the model itself, self.index is left as it
\* is.
IterStart ==
    /\ it_loop # "running"
    /\ it_loops < MaxLoops
    /\ it_loop' = "running"
    /\ it_seen' = <<>>
    /\ it_loops' = it_loops + 1
    /\ UNCHANGED <<it_layers, it_index>>
    /\ ITFrame

\* next() (lines 27-32): StopIteration with no layers or at the end, else
\* the layer at self.index, and self.index moves on.
ModelNext ==
    /\ it_loop = "running"
    /\ IF it_layers = 0 \/ it_index = it_layers
         THEN /\ it_loop' = "stopped"
              /\ UNCHANGED <<it_index, it_seen>>
         ELSE /\ it_index' = it_index + 1
              /\ it_seen' = Append(it_seen, Layers(it_layers)[it_index + 1])
              /\ it_loop' = "running"
    /\ UNCHANGED <<it_layers, it_loops>>
    /\ ITFrame

\* The loop is left by break after some layer (the break of load_weights,
\* lines 205-206).
IterBreak ==
    /\ it_loop = "running"
    /\ it_seen # <<>>
    /\ it_loop' = "abandoned"
    /\ UNCHANGED <<it_layers, it_index, it_seen, it_loops>>
    /\ ITFrame

-----------------------------------------------------------------------------
(* utils.Thread (neuralnet/utils.py:10-24, utils.py:7-21) *)

MaxThreads == 3   \* Thread objects

Threads == 1..MaxThreads
NoThread == 0

\* The Thread objects built, none started; thread_lock free (line 10).
THInit ==
    /\ th_pc = [t \in Threads |-> "new"]
    /\ th_raises \in [Threads -> BOOLEAN]
    /\ thread_lock = NoThread

\* No Thread while another component is exercised.
THIdle ==
    /\ th_pc = [t \in Threads |-> "new"]
    /\ th_raises = [t \in Threads |-> FALSE]
    /\ thread_lock = NoThread

\* start(): run() begins and prints (line 21).
ThreadStart(t) ==
    /\ th_pc[t] = "new"
    /\ th_pc' = [th_pc EXCEPT ![t] = "started"]
    /\ UNCHANGED <<th_raises, thread_lock>>
    /\ THFrame

\* thread_lock.acquire() (line 22) blocks while the lock is held; then func
\* is called (line 23).
ThreadAcquire(t) ==
    /\ th_pc[t] = "started"
    /\ thread_lock = NoThread
    /\ thread_lock' = t
    /\ th_pc' = [th_pc EXCEPT ![t] = "running"]
    /\ UNCHANGED th_raises
    /\ THFrame

\* func returns; self.outputs is set (line 23).
ThreadFuncReturn(t) ==
    /\ th_pc[t] = "running"
    /\ ~th_raises[t]
    /\ th_pc' = [th_pc EXCEPT ![t] = "releasing"]
    /\ UNCHANGED <<th_raises, thread_lock>>
    /\ THFrame

\* func raises: run() has no try/finally, the exception ends the thread at
\* line 23 and line 24 is not reached.
ThreadFuncRaise(t) ==
    /\ th_pc[t] = "running"
    /\ th_raises[t]
    /\ th_pc' = [th_pc EXCEPT ![t] = "raised"]
    /\ UNCHANGED <<th_raises, thread_lock>>
    /\ THFrame

\* thread_lock.release() (line 24); run() returns.
ThreadRelease(t) ==
    /\ th_pc[t] = "releasing"
    /\ thread_lock' = NoThread
    /\ th_pc' = [th_pc EXCEPT ![t] = "done"]
    /\ UNCHANGED th_raises
    /\ THFrame

-----------------------------------------------------------------------------
(* get_batches (utils.py:70-80) over generator (utils.py:155-174) *)

MaxData == 3    \* largest dataset, in samples
MaxBatch == 2   \* largest batch_size and validation_batch_size

\* num_batches of generator(stage) (lines 157, 159): the stage's dataset
\* size by self.batch_size, for both stages.
GeneratorNumBatches ==
    (IF stage = "train" THEN num_train_data ELSE num_test_data) \div batch_size

\* The minibatches generator(stage) yields (lines 172-174), which
\* generate_in_background hands on in order (line 74).
GeneratorBatches == [i \in 1..GeneratorNumBatches |-> "mb1"]

\* num_batches of get_batches (lines 76-78): the stage's dataset size by
\* self.batch_size for 'train', by self.test_batch_size otherwise.
ProgressTotal ==
    (IF stage = "train" THEN num_train_data ELSE num_test_data)
        \div (IF stage = "train" THEN batch_size ELSE test_batch_size)

\* State after get_batches(epoch, num_epochs, stage) has returned with epoch
\* and num_epochs given: the reporter wraps the pipeline's generator (no
\* len()) with total=num_batches and the default min_delay (line 79).
GetBatchesInit ==
    /\ stage \in {"train", "test"}
    /\ num_train_data \in 0..MaxData
    /\ num_test_data \in 0..MaxData
    /\ batch_size \in 1..MaxBatch
    /\ test_batch_size \in 1..MaxBatch
    /\ items = GeneratorBatches
    /\ has_len = FALSE
    /\ total_arg = <<ProgressTotal>>
    /\ min_delay = 1
    /\ total = 0
    /\ n = 0
    /\ clock = MaxDelay + 1
    /\ t_start = 0
    /\ t_last = 0
    /\ printed = <<>>
    /\ passed = <<>>
    /\ rpc = "unstarted"

\* get_batches while another component is exercised: not called.
GBIdle ==
    /\ stage = "train"
    /\ num_train_data = 0
    /\ num_test_data = 0
    /\ batch_size = 1
    /\ test_batch_size = 1

-----------------------------------------------------------------------------
(* The specifications *)

\* The reporter while another component is exercised: not called.
ProgIdle ==
    /\ items = <<>>
    /\ has_len = TRUE
    /\ total_arg = <<>>
    /\ min_delay = 0
    /\ total = 0
    /\ n = 0
    /\ clock = MaxDelay + 1
    /\ t_start = 0
    /\ t_last = 0
    /\ printed = <<>>
    /\ passed = <<>>
    /\ rpc = "unstarted"

\* The components that are not exercised, each in its initial state.
RestIdle == GNIdle /\ LWIdle /\ ITIdle /\ THIdle /\ GBIdle

\* The pipeline while another component is exercised: not called.
PipeIdle ==
    /\ source = <<>>
    /\ fails = FALSE
    /\ num_cached = 1
    /\ queue = <<>>
    /\ ppc = "nothread"
    /\ pitem = NoItem
    /\ taken = 0
    /\ cpc = "unstarted"
    /\ yielded = <<>>
    /\ nthreads = 0
    /\ nqueues = 0

Init == PipeInit /\ ProgIdle /\ BNIdle /\ RestIdle

Next ==
    \/ Producer
    \/ Consumer
    \/ ConsumerAbandon

Spec == Init /\ [][Next]_vars

\* The consumer iterates to the end; the two threads are scheduled fairly.
DrainNext ==
    \/ Producer
    \/ Consumer

FairSpec == Init /\ [][DrainNext]_vars /\ WF_vars(Producer) /\ WF_vars(Consumer)

\* A source may also yield a str of value 'end'.  `item is not 'end'` (line
\* 104) compares objects: whether such an item is the object of the literal
\* of lines 88 and 104 depends on where the str was made (CPython shares
\* equal literals, a str built at run time is another object).  Both occur:
\* `sentinel` is the item that is the literal's object, EqualEnd the item
\* that is equal to it and another object.
EqualEnd == "end (another object)"
StrItems == {sentinel, EqualEnd}

\* State after `generate_in_background(generator)` has returned, for a
\* generator that yields minibatches and strs of value 'end'.
SentinelInit ==
    /\ source \in SeqsUpTo({"mb1"} \cup StrItems, MaxItems)
    /\ fails \in BOOLEAN
    /\ num_cached \in 0..MaxCached
    /\ queue = <<>>
    /\ ppc = "nothread"
    /\ pitem = NoItem
    /\ taken = 0
    /\ cpc = "unstarted"
    /\ yielded = <<>>
    /\ nthreads = 0
    /\ nqueues = 0
    /\ ProgIdle
    /\ BNIdle
    /\ RestIdle

SentinelSpec == SentinelInit /\ [][Next]_vars

ProgressSpecInit == ProgInit /\ PipeIdle /\ BNIdle /\ RestIdle

ProgressNext ==
    \/ ProgressBegin
    \/ ProgressBeginNoLen
    \/ \E tick \in 0..MaxTick : ProgressItem(tick)
    \/ ProgressResume
    \/ ProgressAbandon
    \/ \E tick \in 0..MaxTick : ProgressEnd(tick)

ProgressSpec == ProgressSpecInit /\ [][ProgressNext]_vars

BNSpecInit == BNInit /\ PipeIdle /\ ProgIdle /\ RestIdle

BNNext ==
    \/ \E flag \in BOOLEAN : SetTrainingFlag(flag)
    \/ \E k \in BatchKinds : ForwardTrain(k)
    \/ \E k \in BatchKinds : ForwardTest(k)
    \/ \E g \in {1, 2}, b \in {0, 1} : UpdateParams(g, b)
    \/ Reset

BNSpec == BNSpecInit /\ [][BNNext]_vars

GNSpecInit ==
    GNInit /\ PipeIdle /\ ProgIdle /\ BNIdle /\ LWIdle /\ ITIdle /\ THIdle /\ GBIdle

GNNext ==
    \/ GNConstruct
    \/ \E k \in BatchKinds : GNForward(k)
    \/ \E g \in {1, 2}, b \in {0, 1} : GNUpdateParams(g, b)

GNSpec == GNSpecInit /\ [][GNNext]_vars

LoadSpecInit ==
    LWInit /\ PipeIdle /\ ProgIdle /\ BNIdle /\ GNIdle /\ ITIdle /\ THIdle /\ GBIdle

LoadNext ==
    \/ LoadLayer
    \/ LoadEnd

LoadSpec == LoadSpecInit /\ [][LoadNext]_vars

IterSpecInit ==
    ITInit /\ PipeIdle /\ ProgIdle /\ BNIdle /\ GNIdle /\ LWIdle /\ THIdle /\ GBIdle

IterNext ==
    \/ IterStart
    \/ ModelNext
    \/ IterBreak

IterSpec == IterSpecInit /\ [][IterNext]_vars

ThreadSpecInit ==
    THInit /\ PipeIdle /\ ProgIdle /\ BNIdle /\ GNIdle /\ LWIdle /\ ITIdle /\ GBIdle

ThreadNext ==
    \E t \in Threads :
        \/ ThreadStart(t)
        \/ ThreadAcquire(t)
        \/ ThreadFuncReturn(t)
        \/ ThreadFuncRaise(t)
        \/ ThreadRelease(t)

ThreadSpec == ThreadSpecInit /\ [][ThreadNext]_vars

GetBatchesSpecInit ==
    GetBatchesInit /\ PipeIdle /\ BNIdle /\ GNIdle /\ LWIdle /\ ITIdle /\ THIdle

GetBatchesSpec == GetBatchesSpecInit /\ [][ProgressNext]_vars

-----------------------------------------------------------------------------
(* Quantities the pipeline claims speak of *)

\* Items taken from the source that the consumer has not dequeued yet (in
\* the queue, or in the producer's hands on the way to it).
Unconsumed == taken - Len(yielded)

\* Source items not yet enqueued (the one the producer holds included).
ItemsLeft == Len(source) - (IF ppc = "put" THEN taken - 1 ELSE taken)

\* Free slots of a bounded queue.
FreeRoom == num_cached - Len(queue)

\* Queue entries the consumer has dequeued: the items, and the sentinel.
Dequeued == Len(yielded) + (IF cpc = "done" THEN 1 ELSE 0)

\* The producer is blocked in queue.put with nobody left to make room.
BlockedForGood == cpc = "abandoned" /\ ppc = "put" /\ QueueFull(queue, num_cached)

\* The consumer stopped while more items were left than the queue has room for.
StoppedShort == cpc = "abandoned" /\ num_cached >= 1 /\ ItemsLeft > FreeRoom

-----------------------------------------------------------------------------
(* C1: the consumer receives the source items in source order, none lost,   *)
(* none duplicated: what it has been handed is always a prefix of the       *)
(* source, and when its iteration ends it has been handed the whole source, *)
(* under every interleaving of producer and consumer.                       *)
C1_InOrderDelivery ==
    /\ IsPrefix(yielded, source)
    /\ cpc = "done" => yielded = source

C1_Witness ==
    /\ cpc = "done"
    /\ Len(source) >= 3
    /\ num_cached >= 1 /\ num_cached < Len(source)
    /\ source[1] # source[2]
    /\ yielded = source

(* C2 as claimed: with 1 <= C < N, the items taken from the source and not  *)
(* yet dequeued, the one the producer holds while blocked included, number  *)
(* at most C.                                                                *)
C2_AtMostC ==
    (num_cached >= 1 /\ num_cached < Len(source)) => Unconsumed <= num_cached

(* C2 amended: with 1 <= C < N the queue holds at most C entries, and the   *)
(* items taken from the source and not yet dequeued number at most C + 1:   *)
(* C in the queue and the one the producer holds while blocked.             *)
C2_AtMostCPlusOne ==
    (num_cached >= 1 /\ num_cached < Len(source)) =>
        /\ Len(queue) <= num_cached
        /\ Unconsumed <= num_cached + 1

C2_Witness ==
    /\ num_cached >= 1 /\ num_cached < Len(source)
    /\ ppc = "put"
    /\ QueueFull(queue, num_cached)
    /\ Unconsumed = num_cached + 1

\* The sentinel is in the queue only as its last entry, only once the
\* producer has taken every source item and returned, and is never yielded.
SentinelOnlyLast ==
    /\ \A i \in 1..Len(queue) :
          IsSentinel(queue[i]) => (i = Len(queue) /\ ppc = "done" /\ taken = Len(source))
    /\ \A i \in 1..Len(yielded) : ~IsSentinel(yielded[i])
    /\ cpc = "done" => (ppc = "done" /\ queue = <<>>)

(* C3: over a source that raises no error, with a consumer that keeps       *)
(* requesting and fair scheduling, the producer enqueues the sentinel once, *)
(* after all items, and stops; the consumer dequeues the sentinel and ends  *)
(* without yielding it; so neither stays blocked forever.                   *)
C3_DrainTerminates ==
    /\ []SentinelOnlyLast
    /\ (~fails) => <>[](ppc = "done" /\ cpc = "done" /\ yielded = source /\ queue = <<>>)

C3_Witness ==
    /\ ~fails
    /\ ppc = "done" /\ cpc = "done"
    /\ queue = <<>>
    /\ Len(yielded) = Len(source)
    /\ Len(source) >= 2

(* C4: when the source raises in the producer thread, the consumer's        *)
(* iteration ends with that error; it is never left waiting on the empty    *)
(* queue of a producer that has died.                                       *)
C4_ErrorReachesConsumer ==
    ~(ppc = "dead" /\ cpc = "get" /\ queue = <<>>)

(* C5 as claimed (first half), for a bounded queue with 1 <= C < N: the     *)
(* producer reaches its end only if the consumer has dequeued every source  *)
(* item.                                                                    *)
C5_EndOnlyAfterDrain ==
    (num_cached >= 1 /\ num_cached < Len(source) /\ ppc = "done") =>
        Len(yielded) = Len(source)

(* C5 amended: there is no cancellation.  With a bounded queue of capacity  *)
(* C the producer reaches its end only after the consumer has dequeued at   *)
(* least N + 1 - C of the N + 1 queue entries (for C = 1: every item); if   *)
(* the consumer stops while more source items are left than the queue has   *)
(* free room, that stays so, the producer never gets past its enqueue of an *)
(* item, and once blocked there it stays blocked.                           *)
C5_NoCancellation ==
    /\ []((num_cached >= 1 /\ ppc = "done") => Dequeued >= Len(source) + 1 - num_cached)
    /\ [](StoppedShort => ppc \in {"iter", "put"})
    /\ [][StoppedShort => StoppedShort']_vars
    /\ [][BlockedForGood => BlockedForGood']_vars

C5_Witness ==
    /\ StoppedShort
    /\ BlockedForGood
    /\ Len(yielded) >= 1

(* C6 as claimed: once generate_in_background(source) has returned, the     *)
(* pipeline has exactly one producer thread and one queue.                  *)
C6_CreatedByCall ==
    nthreads = 1 /\ nqueues = 1

(* C6 amended: the call itself creates nothing (it returns a generator      *)
(* object); the consumer's first request creates exactly one producer       *)
(* thread and one bounded queue; from then on the producer runs on its own  *)
(* and no second producer or queue is created, however many items the       *)
(* consumer requests.                                                       *)
C6_OneProducerFromFirstRequest ==
    /\ cpc = "unstarted" => (nthreads = 0 /\ nqueues = 0 /\ ppc = "nothread")
    /\ cpc # "unstarted" => (nthreads = 1 /\ nqueues = 1 /\ ppc # "nothread")

\* The producer has run ahead of a consumer that asked for one item only.
C6_Witness ==
    /\ cpc = "yielded"
    /\ Len(yielded) = 1
    /\ num_cached >= 2
    /\ Len(queue) = num_cached
    /\ nthreads = 1

-----------------------------------------------------------------------------
\* Every printed line before the last one is a progress line.
OnlyLastIsFinal ==
    \A i \in 1..(Len(printed) - 1) : printed[i].kind = "progress"

LastLine == printed[Len(printed)]

C8_PassThrough ==
    /\ IsPrefix(passed, items)
    /\ total_arg # <<>> => rpc # "TypeError"
    /\ rpc = "done" => passed = items

-----------------------------------------------------------------------------
\* Statistics of the batch of the last forward call, per statistic index.
LastMean(j) == BatchMean(bn_input, axes, j)
LastVar(j) == BatchVar(bn_input, axes, j)

\* old + f * (stat - old): a move from old toward stat by the fraction f.
MovedToward(old, stat, f) == RAdd(old, RMul(f, RSub(stat, old)))

(* C9: a forward call in test mode leaves running_mean, running_var, gamma  *)
(* and beta as they were, so a test-mode call that follows a test-mode call *)
(* on the same input returns the same output; running_mean and running_var  *)
(* change in training-mode forward calls only.                              *)
C9_TestModeFrozen ==
    /\ [][bn_op' = "test" =>
            /\ ~training_flag
            /\ UNCHANGED <<running_mean, running_var, gamma, beta>>
            /\ (bn_op = "test" /\ bn_input' = bn_input) => bn_output' = bn_output]_vars
    /\ [][(running_mean' # running_mean \/ running_var' # running_var) =>
            (training_flag /\ bn_op' = "train")]_vars

\* A test-mode forward call on a layer whose running statistics have moved.
C9_Witness ==
    /\ bn_op = "test"
    /\ ~training_flag
    /\ trained >= 1
    /\ running_mean # Zeros(axes)
    /\ running_var # Zeros(axes)
    /\ bn_input # AllOnes

(* C10 as claimed: after a training-mode forward call running_mean and      *)
(* running_var are old * (1 - factor) + batch_stat * factor with batch_stat *)
(* the mean and the variance of the batch over the configured axes.         *)
C10_MovesByFactor ==
    [][trained' = trained + 1 =>
         \A j \in StatIdx(axes) :
            \A mean \in {LastMean(j)'}, var \in {LastVar(j)'} :
               /\ running_mean'[j] =
                     MovedToward(running_mean[j], mean, running_average_factor)
               /\ running_var'[j] =
                     MovedToward(running_var[j], var, running_average_factor)]_vars

(* C10 amended: after a training-mode forward call running_mean is          *)
(* old * (1 - factor) + batch_mean * factor and running_var is              *)
(* old * (1 - factor) + (m / (m - 1)) * batch_var * factor, where batch_var *)
(* is the variance of the batch over the configured axes and m the number   *)
(* of elements it is taken over: each moves by factor * (stat - old) toward *)
(* the batch mean and toward the unbiased batch variance.  From the initial *)
(* state an all-ones batch with factor 0.1 gives running_mean 0.1 and       *)
(* running_var 0.                                                           *)
C10_MovesByFactorUnbiased ==
    [][trained' = trained + 1 =>
         /\ \A j \in StatIdx(axes) :
               \A mean \in {LastMean(j)'},
                  unbiased \in {RMul(Rat(ReducedCount(axes), ReducedCount(axes) - 1),
                                     LastVar(j)')} :
                  /\ running_mean'[j] =
                        MovedToward(running_mean[j], mean, running_average_factor)
                  /\ running_var'[j] =
                        MovedToward(running_var[j], unbiased, running_average_factor)
         /\ (trained = 0 /\ bn_input' = AllOnes /\ running_average_factor = <<1, 10>>) =>
               \A j \in StatIdx(axes) :
                  running_mean'[j] = <<1, 10>> /\ running_var'[j] = RInt(0)]_vars

\* A second training-mode forward call, on a batch whose variance is not 0.
C10_Witness ==
    /\ bn_op = "train"
    /\ trained = 2
    /\ running_average_factor = <<1, 10>>
    /\ \E j \in StatIdx(axes) : LastVar(j) # RInt(0) /\ running_var[j] # RInt(0)

-----------------------------------------------------------------------------
(* C11: reset() completes in every state and for every activation the layer *)
(* was built with; afterwards gamma is all ones and beta all zeros, and     *)
(* running_mean and running_var are what they were before the call.         *)
C11_ResetCompletes ==
    [][bn_op' \in {"reset", "reset:KeyError"} =>
         /\ bn_op' = "reset"
         /\ gamma' = Ones(axes)
         /\ beta' = Zeros(axes)
         /\ UNCHANGED <<running_mean, running_var>>]_vars

-----------------------------------------------------------------------------
(* C12: a GroupNormLayer constructor call with a groups value that does not  *)
(* divide the channel count c = input_shape[1] (c % groups # 0) fails with   *)
(* an error before any layer state (gamma, beta, the params list) is        *)
(* created; with a groups >= 1 that divides c it succeeds.                   *)
C12_GroupsMustDivide ==
    gn_made # "call" =>
        /\ (gn_groups >= 1 /\ gn_channels % gn_groups # 0) =>
               /\ gn_made = "AssertionError"
               /\ gn_params = <<>> /\ gn_gamma = <<>> /\ gn_beta = <<>>
               /\ gn_output = NoBatch
        /\ (gn_groups >= 1 /\ gn_channels % gn_groups = 0) =>
               /\ gn_made = "built"
               /\ gn_params = <<"gamma", "beta">>

\* A construction refused for 3 channels in 2 groups.
C12_Witness ==
    /\ gn_made = "AssertionError"
    /\ gn_channels = 3
    /\ gn_groups = 2

-----------------------------------------------------------------------------
(* C13: for groups = 1 and for groups = channel count the output of         *)
(* get_output is what the general grouped path computes for the same input, *)
(* gamma, beta and the layer's epsilon, for every epsilon the layer can be  *)
(* built with.                                                              *)
C13_FastPathsMatchGrouped ==
    (gn_input # NoBatch /\ gn_groups \in {1, gn_channels}) =>
        gn_output = GroupedPath(gn_input)

-----------------------------------------------------------------------------
(* C14: load_weights never raises: for every archive (any number of keys,   *)
(* odd or even) and every layer sequence it goes through the layers and     *)
(* returns after printing the success line.                                 *)
C14_NeverRaises ==
    /\ lw_pc # "IndexError"
    /\ lw_pc = "done" => lw_log[Len(lw_log)] = SuccessLine

-----------------------------------------------------------------------------
(* C15: the queue never holds more than num_cached entries, for every       *)
(* configured num_cached, the boundary value 0 included.                    *)
C15_QueueBounded == Len(queue) <= num_cached

-----------------------------------------------------------------------------
(* C16: the consumer's iteration ends only after the producer has exhausted *)
(* the source, and no source item is taken for the sentinel: a source item  *)
(* of value 'end' is yielded like any other and the items after it are      *)
(* delivered, so that an iteration that has ended has yielded every item of *)
(* the source.                                                              *)
C16_ItemNeverSentinel ==
    cpc = "done" => (taken = Len(source) /\ ppc = "done" /\ yielded = source)

-----------------------------------------------------------------------------
(* C17: the total get_batches passes to the progress reporter is the number *)
(* of minibatches the generator yields, for both stages and every           *)
(* batch_size, validation_batch_size and dataset size: no printed index     *)
(* exceeds the total, and the reporter is not started with a total of 0 on  *)
(* a sequence without a length.                                             *)
C17_TotalIsBatchCount ==
    /\ total_arg = <<Len(items)>>
    /\ rpc # "TypeError"
    /\ \A i \in 1..Len(printed) : printed[i].idx <= printed[i].total

-----------------------------------------------------------------------------
(* C18: 0 <= index <= len(layers) in every state, and every iteration over  *)
(* the model, a second one after an earlier loop ended or was abandoned     *)
(* included, yields the layers in construction order, each once, then       *)
(* stops.                                                                   *)
C18_EveryLoopYieldsAllLayers ==
    /\ it_index \in 0..it_layers
    /\ IsPrefix(it_seen, Layers(it_layers))
    /\ it_loop = "stopped" => it_seen = Layers(it_layers)

-----------------------------------------------------------------------------
(* C19: at most one Thread executes its func at a time, and thread_lock is  *)
(* released whenever a func invocation has finished, by return or by raise. *)
C19_LockReleasedAfterFunc ==
    /\ Cardinality({t \in Threads : th_pc[t] = "running"}) <= 1
    /\ \A t \in Threads : th_pc[t] \in {"done", "raised"} => thread_lock # t

====
